---------------------------- MODULE Spec2Model ----------------------------
(***************************************************************************)
(* Model of src/api/ai.js: the catch-all router of the Gorilla Hub backend *)
(* (lines 48-187).  One invocation of the handler serves one request; the  *)
(* handler runs synchronously between two awaits, so every action below is *)
(* one external call taking effect in the hosted data service together     *)
(* with the handler code that follows it, up to the next call or to the    *)
(* response.                                                               *)
(***************************************************************************)
EXTENDS Integers, Sequences, FiniteSets, TLC

VARIABLES
    users,      \* table users: identity id -> <<>> (no row) or <<row>>
    settings,   \* table settings: a set of rows, at most one per id
    tutorials,  \* table tutorials: the rows, in insertion order
    cosmetics,  \* table cosmetics: the rows, in insertion order
    req,        \* per invocation: the request, its position, locals, response,
                \* the calls it made and the tables as it found them
    served      \* number of requests received so far

vars == <<users, settings, tutorials, cosmetics, req, served>>

store == <<users, settings, tutorials, cosmetics>>

-----------------------------------------------------------------------------
(* Bounds of the exploration. *)

\* Requests received in one behaviour.
MaxRequests == 2

\* Rows a collection may hold (old rows survive a failed delete).
MaxRows == 3

-----------------------------------------------------------------------------
(* JavaScript values.  An optional value is <<>> (undefined) or <<v>>. *)

None == <<>>

Some(v) == <<v>>

\* JS truthiness of an optional string: undefined and '' are falsy.
Truthy(o) == o # None /\ o[1] # ""

\* a || b on optional strings.
OrElse(a, b) == IF Truthy(a) THEN a ELSE b

\* String.prototype.startsWith
StartsWith(s, p) == Len(s) >= Len(p) /\ SubSeq(s, 1, Len(p)) = p

\* String.prototype.indexOf, 1-based; 0 when p does not occur in s.
IndexOf(s, p) ==
    LET hits == {i \in 1..(Len(s) - Len(p) + 1) : SubSeq(s, i, i + Len(p) - 1) = p}
    IN  IF hits = {} THEN 0 ELSE CHOOSE i \in hits : \A j \in hits : i <= j

\* String.prototype.replace(p, r) with a string pattern: first occurrence only.
ReplaceFirst(s, p, r) ==
    LET i == IndexOf(s, p)
    IN  IF i = 0 THEN s
        ELSE SubSeq(s, 1, i - 1) \o r \o SubSeq(s, i + Len(p), Len(s))

\* s.split('@')[0]
LocalPart(s) ==
    LET i == IndexOf(s, "@")
    IN  IF i = 0 THEN s ELSE SubSeq(s, 1, i - 1)

\* url.replace(/^\/api\/?/, '')
StripApi(url) ==
    IF StartsWith(url, "/api/") THEN SubSeq(url, 6, Len(url))
    ELSE IF StartsWith(url, "/api") THEN SubSeq(url, 5, Len(url))
    ELSE url

\* Mutant of TokenOf: the header is taken as the token, prefix and all.
TokenOf_NoStrip(auth) ==
    IF Truthy(auth) THEN auth ELSE None

\* const token = authHeader.replace('Bearer ', '') || null, with
\* authHeader = req.headers.authorization || ''
TokenOf(auth) ==
    LET authHeader == IF Truthy(auth) THEN auth[1] ELSE ""
        t == ReplaceFirst(authHeader, "Bearer ", "")
    IN  IF t = "" THEN None ELSE Some(t)

-----------------------------------------------------------------------------
(* The hosted data service: identities, tables and the outcomes of a call. *)

\* Identity ids known to the auth service.
Ids == {1, 2, 3}

\* supabaseAdmin.auth: the identity each bearer token resolves to.
Identities ==
    [ tA |-> [id |-> 1, email |-> Some("ann@x.io"), full_name |-> None],
      tB |-> [id |-> 2, email |-> None,             full_name |-> None],
      tC |-> [id |-> 3, email |-> Some("cy@x.io"),  full_name |-> Some("Cy")] ]

Roles == {"user", "admin", "dev"}

\* Messages an error object of the service or a thrown exception may carry.
Msgs == {"E1", "E2"}

\* A call returns normally, returns {error}, or throws.
Failures == {[res |-> r, msg |-> m] : r \in {"err", "throw"}, m \in Msgs}

Outcomes == {[res |-> "ok", msg |-> ""]} \cup Failures

\* auth.getUser(token): {data: {user}, error}.  An unknown token is rejected
\* with an error or answered with user null; any call may fail or throw.
GetUserResults(token) ==
    LET known == token \in DOMAIN Identities
    IN  {[res |-> "ok", msg |-> "",
          user |-> IF known THEN Some(Identities[token]) ELSE None]}
        \cup {[res |-> f.res, msg |-> f.msg, user |-> None] : f \in Failures}

\* A row of settings, tutorials or cosmetics: opaque but for its id and the
\* column the lists are ordered by (title, name).
DataRow(id, title) == [id |-> id, title |-> title]

\* A row of users.
UserRow(id, email, role, name) ==
    [id |-> id, email |-> email, role |-> role, name |-> name]

\* upsert(row, {onConflict: ['id']}) on users: insert, or on conflict update
\* the columns the row carries (an undefined property is not serialized).
UsersUpsert(table, row) ==
    LET old == table[row.id]
        new == IF old = None THEN row
               ELSE [row EXCEPT !.name = IF row.name = None THEN old[1].name ELSE row.name]
    IN  [table EXCEPT ![row.id] = Some(new)]

\* upsert(row, {onConflict: ['id']}) on settings.
SettingsUpsert(table, row) ==
    LET old == {x \in table : x.id = row.id}
        new == IF old = {} \/ row.title # None THEN row
               ELSE [row EXCEPT !.title = (CHOOSE x \in old : TRUE).title]
    IN  (table \ old) \cup {new}

\* Alphabetical rank of the titles in use.
Titles == <<"A", "B", "Gorilla Hub", "T">>

Rank(t) == CHOOSE i \in 1..Len(Titles) : Titles[i] = t

\* select('*').order(column, {ascending: true}): the rows sorted by title.
RECURSIVE Ordered(_)
Ordered(rows) ==
    IF rows = <<>> THEN <<>>
    ELSE LET m == CHOOSE i \in 1..Len(rows) :
                      \A j \in 1..Len(rows) :
                          \/ Rank(rows[i].title[1]) < Rank(rows[j].title[1])
                          \/ Rank(rows[i].title[1]) = Rank(rows[j].title[1]) /\ i <= j
             rest == [k \in 1..(Len(rows) - 1) |-> IF k < m THEN rows[k] ELSE rows[k + 1]]
         IN  <<rows[m]>> \o Ordered(rest)

-----------------------------------------------------------------------------
(* Requests and responses. *)

Methods == {"GET", "POST"}

Urls ==
    { "/api/supabase/data/site",
      "/api/supabase/data/tutorials",
      "/api/supabase/data/cosmetics",
      "/api/supabase/data/sync_user",
      "/api/supabase/data/me",
      "/api/supabase/admin/update",
      "/api/supabase/data/sitemap",
      "/supabase/admin/update" }

\* req.headers.authorization
AuthHeaders ==
    { None, Some(""), Some("Bearer "), Some("Bearer tA"), Some("Bearer tB"),
      Some("Bearer tC"), Some("Bearer zz") }

RowA == DataRow(None, Some("A"))

RowB == DataRow(None, Some("B"))

\* body.payload: undefined, an array of rows, or one object.
Payload(kind, rows) == [kind |-> kind, rows |-> rows]

NoPayload == Payload("undefined", <<>>)

Body(type, payload, email) == [type |-> type, payload |-> payload, email |-> email]

\* req.body: undefined, or a parsed JSON object.
Bodies ==
    { None,
      Some(Body(None, NoPayload, None)),
      Some(Body(None, NoPayload, Some("bob@y.io"))),
      Some(Body(Some("bogus"), NoPayload, None)),
      Some(Body(Some("site"), Payload("object", <<DataRow(None, Some("T"))>>), None)),
      Some(Body(Some("site"), Payload("object", <<DataRow(Some(2), Some("T"))>>), None)),
      Some(Body(Some("tutorials"), NoPayload, None)),
      Some(Body(Some("tutorials"), Payload("array", <<>>), None)),
      Some(Body(Some("tutorials"), Payload("array", <<RowA>>), None)),
      Some(Body(Some("tutorials"), Payload("array", <<RowA, RowB>>), None)),
      Some(Body(Some("cosmetics"), Payload("array", <<>>), None)),
      Some(Body(Some("cosmetics"), Payload("object", <<RowA>>), None)),
      Some(Body(Some("cosmetics"), Payload("array", <<RowA>>), None)) }

\* The urls requests with a body are sent to.
BodyUrls ==
    { "/api/supabase/data/sync_user",
      "/api/supabase/admin/update",
      "/supabase/admin/update" }

\* The requests received: every method, url and Authorization header without
\* a body, and the POSTs to the write urls with every header and body.
Requests ==
    [method : Methods, url : Urls, auth : AuthHeaders, body : {None}]
    \cup [method : {"POST"}, url : BodyUrls, auth : AuthHeaders, body : Bodies]

\* req.body || {}
BodyOf(r) == IF r.body = None THEN Body(None, NoPayload, None) ELSE r.body[1]

\* res.status(s).json(...)
Response(status, kind, error, rows, profile) ==
    [status |-> status, kind |-> kind, error |-> error, rows |-> rows, profile |-> profile]

\* res.status(s).json({ error: msg })
ErrorResponse(status, msg) == Response(status, "error", msg, <<>>, None)

\* res.status(200).json({ ok: true })
OkResponse == Response(200, "ok", "", <<>>, None)

\* An entry of the record of external calls an invocation has made.
Call(op, tbl, res, val) == [op |-> op, tbl |-> tbl, res |-> res, val |-> val]

\* The invocations of the handler in flight: one, requests being served one
\* after the other.
Reqs == {1}

Idle ==
    [pc |-> "idle", method |-> "", url |-> "", auth |-> None, body |-> None,
     user |-> None, log |-> <<>>, resp |-> None, before |-> None]

-----------------------------------------------------------------------------
(* The initial state: the tables as the service holds them when the first  *)
(* request arrives.  Rows of users carry roles granted out-of-band.        *)

\* A profile row whose role and name were set administratively.
StoredRow(id, role) ==
    LET idn == CHOOSE t \in DOMAIN Identities : Identities[t].id = id
    IN  UserRow(id, Some(OrElse(Identities[idn].email, Some(""))[1]), role, Some("Zed"))

InitUsers ==
    { u \in [Ids -> {None} \cup {Some(StoredRow(i, ro)) : i \in Ids, ro \in Roles}] :
        /\ \A i \in Ids : u[i] # None => u[i][1].id = i
        /\ u[2] # None => u[2][1].role = "dev"
        /\ u[3] = None }

Init ==
    /\ users \in InitUsers
    /\ settings \in {{}, {DataRow(Some(1), Some("A"))}}
    /\ tutorials \in {<<>>, <<RowB>>}
    /\ cosmetics = <<RowB>>
    /\ req = [r \in Reqs |-> Idle]
    /\ served = 0

-----------------------------------------------------------------------------
(* Handler steps. *)

\* return res.status(...).json(...)
Finish(q, resp) == [q EXCEPT !.pc = "done", !.resp = Some(resp)]

\* The call is appended to the invocation's record of external calls.
Called(q, call) == [q EXCEPT !.log = Append(@, call)]

\* Mutant of Caught: no catch, the error leaves the handler unanswered.
Caught_Uncaught(q, msg) == [q EXCEPT !.pc = "crashed"]

\* catch (err) { return res.status(500).json({ error: err.message || String(err) }) }
Caught(q, msg) == Finish(q, ErrorResponse(500, msg))

\* Mutant of RouteOf: the method is not compared.
RouteOf_AnyMethod(method, path) ==
    IF StartsWith(path, "supabase/data/site") THEN "site"
    ELSE IF StartsWith(path, "supabase/data/tutorials") THEN "tutorials"
    ELSE IF StartsWith(path, "supabase/data/cosmetics") THEN "cosmetics"
    ELSE IF StartsWith(path, "supabase/data/sync_user") THEN "sync_user"
    ELSE IF StartsWith(path, "supabase/data/me") THEN "me"
    ELSE IF StartsWith(path, "supabase/admin/update") THEN "admin"
    ELSE "none"

\* The router's chain of if statements: the first entry whose method and
\* path prefix match.
RouteOf(method, path) ==
    IF method = "GET" /\ StartsWith(path, "supabase/data/site") THEN "site"
    ELSE IF method = "GET" /\ StartsWith(path, "supabase/data/tutorials") THEN "tutorials"
    ELSE IF method = "GET" /\ StartsWith(path, "supabase/data/cosmetics") THEN "cosmetics"
    ELSE IF method = "POST" /\ StartsWith(path, "supabase/data/sync_user") THEN "sync_user"
    ELSE IF method = "GET" /\ StartsWith(path, "supabase/data/me") THEN "me"
    ELSE IF method = "POST" /\ StartsWith(path, "supabase/admin/update") THEN "admin"
    ELSE "none"

\* Mutant of Entered: the list routes ask for a bearer token too.
Entered_ReadsNeedToken(q) ==
    LET route == RouteOf(q.method, StripApi(q.url))
        token == TokenOf(q.auth)
    IN  CASE route \in {"site", "tutorials", "cosmetics"} ->
                IF token = None THEN Finish(q, ErrorResponse(401, "Not authenticated"))
                ELSE [q EXCEPT !.pc = route \o "_select"]
          [] route = "sync_user" ->
                IF token = None THEN Finish(q, ErrorResponse(400, "Missing token"))
                ELSE [q EXCEPT !.pc = "sync_getUser"]
          [] route = "me" ->
                IF token = None THEN Finish(q, ErrorResponse(401, "Not authenticated"))
                ELSE [q EXCEPT !.pc = "me_getUser"]
          [] route = "admin" ->
                IF token = None THEN Finish(q, ErrorResponse(401, "Missing token"))
                ELSE [q EXCEPT !.pc = "admin_getUser"]
          [] OTHER -> Finish(q, ErrorResponse(404, "Not found"))

\* The handler from its entry to its first await, or to its response.
Entered(q) ==
    LET route == RouteOf(q.method, StripApi(q.url))
        token == TokenOf(q.auth)
    IN  CASE route = "site"      -> [q EXCEPT !.pc = "site_select"]
          [] route = "tutorials" -> [q EXCEPT !.pc = "tutorials_select"]
          [] route = "cosmetics" -> [q EXCEPT !.pc = "cosmetics_select"]
          [] route = "sync_user" ->
                IF token = None THEN Finish(q, ErrorResponse(400, "Missing token"))
                ELSE [q EXCEPT !.pc = "sync_getUser"]
          [] route = "me" ->
                IF token = None THEN Finish(q, ErrorResponse(401, "Not authenticated"))
                ELSE [q EXCEPT !.pc = "me_getUser"]
          [] route = "admin" ->
                IF token = None THEN Finish(q, ErrorResponse(401, "Missing token"))
                ELSE [q EXCEPT !.pc = "admin_getUser"]
          [] OTHER -> Finish(q, ErrorResponse(404, "Not found"))

\* A request arrives and the handler runs to its first await.
Dispatch(r) ==
    /\ req[r].pc = "idle"
    /\ served < MaxRequests
    /\ \E i \in Requests :
          req' = [req EXCEPT ![r] =
                    Entered([Idle EXCEPT !.method = i.method, !.url = i.url,
                                         !.auth = i.auth, !.body = i.body,
                                         !.before = Some(store)])]
    /\ served' = served + 1
    /\ UNCHANGED store

\* The response has been sent and the invocation ends; nothing of it is kept.
Complete(r) ==
    /\ req[r].pc = "done"
    /\ req' = [req EXCEPT ![r] = Idle]
    /\ UNCHANGED <<store, served>>

\* GET data/site: settings.select('*').limit(1).single()
SiteSelect(r) ==
    /\ req[r].pc = "site_select"
    /\ \E o \in Outcomes :
          LET q == Called(req[r], Call("select", "settings", o.res, ""))
          IN  CASE o.res = "throw" -> req' = [req EXCEPT ![r] = Caught(q, o.msg)]
                [] o.res = "err" -> req' = [req EXCEPT ![r] = Finish(q, ErrorResponse(500, o.msg))]
                [] OTHER ->
                     IF settings = {}
                     THEN req' = [req EXCEPT ![r] = Finish(q,
                              Response(200, "row", "", <<DataRow(None, Some("Gorilla Hub"))>>, None))]
                     ELSE \E row \in settings :
                              req' = [req EXCEPT ![r] = Finish(q,
                                  Response(200, "row", "", <<row>>, None))]
    /\ UNCHANGED <<store, served>>

\* The list routes after their select: 500 on an error, else the rows.
Listed(q, o, rows) ==
    CASE o.res = "throw" -> Caught(q, o.msg)
      [] o.res = "err" -> Finish(q, ErrorResponse(500, o.msg))
      [] OTHER -> Finish(q, Response(200, "rows", "", Ordered(rows), None))

\* GET data/tutorials: tutorials.select('*').order('title')
TutorialsSelect(r) ==
    /\ req[r].pc = "tutorials_select"
    /\ \E o \in Outcomes :
          req' = [req EXCEPT ![r] =
                    Listed(Called(req[r], Call("select", "tutorials", o.res, "")), o, tutorials)]
    /\ UNCHANGED <<store, served>>

\* GET data/cosmetics: cosmetics.select('*').order('name')
CosmeticsSelect(r) ==
    /\ req[r].pc = "cosmetics_select"
    /\ \E o \in Outcomes :
          req' = [req EXCEPT ![r] =
                    Listed(Called(req[r], Call("select", "cosmetics", o.res, "")), o, cosmetics)]
    /\ UNCHANGED <<store, served>>

\* user.email?.split('@')[0]
EmailLocalPart(email) == IF email = None THEN None ELSE Some(LocalPart(email[1]))

\* const row = { id: user.id, email: user.email || email || '', role: 'user',
\*               name: user.user_metadata?.full_name || user.email?.split('@')[0] }
SyncRow(user, email) ==
    UserRow(user.id,
            Some(OrElse(OrElse(user.email, email), Some(""))[1]),
            "user",
            OrElse(user.full_name, EmailLocalPart(user.email)))

\* POST data/sync_user: auth.getUser(token), then the checks before the upsert.
SyncGetUser(r) ==
    /\ req[r].pc = "sync_getUser"
    /\ \E g \in GetUserResults(TokenOf(req[r].auth)[1]) :
          LET q == Called(req[r], Call("getUser", "auth", g.res,
                                       IF g.user = None THEN "null" ELSE "user"))
          IN  req' = [req EXCEPT ![r] =
                 CASE g.res = "throw" -> Caught(q, g.msg)
                   [] g.res = "err" -> Finish(q, ErrorResponse(401, "Invalid token"))
                   [] g.user = None -> Finish(q, ErrorResponse(404, "User not found"))
                   [] OTHER -> [q EXCEPT !.pc = "sync_upsert", !.user = g.user]]
    /\ UNCHANGED <<store, served>>

\* POST data/sync_user: users.upsert(row, { onConflict: ['id'] })
SyncUpsert(r) ==
    /\ req[r].pc = "sync_upsert"
    /\ \E o \in Outcomes :
          LET q == Called(req[r], Call("upsert", "users", o.res, ""))
              row == SyncRow(req[r].user[1], BodyOf(req[r]).email)
          IN  /\ req' = [req EXCEPT ![r] =
                    CASE o.res = "throw" -> Caught(q, o.msg)
                      [] o.res = "err" -> Finish(q, ErrorResponse(500, o.msg))
                      [] OTHER -> Finish(q, OkResponse)]
              /\ users' = IF o.res = "ok" THEN UsersUpsert(users, row) ELSE users
    /\ UNCHANGED <<settings, tutorials, cosmetics, served>>

\* GET data/me: auth.getUser(token); userData.user.id throws on a null user.
MeGetUser(r) ==
    /\ req[r].pc = "me_getUser"
    /\ \E g \in GetUserResults(TokenOf(req[r].auth)[1]) :
          LET q == Called(req[r], Call("getUser", "auth", g.res,
                                       IF g.user = None THEN "null" ELSE "user"))
          IN  req' = [req EXCEPT ![r] =
                 CASE g.res = "throw" -> Caught(q, g.msg)
                   [] g.res = "err" -> Finish(q, ErrorResponse(401, "Invalid token"))
                   [] g.user = None -> Caught(q, "TypeError")
                   [] OTHER -> [q EXCEPT !.pc = "me_select", !.user = g.user]]
    /\ UNCHANGED <<store, served>>

\* { id, email: userData.user.email, role: 'user',
\*   name: userData.user.email?.split('@')[0] || 'User' }
DefaultProfile(user) ==
    UserRow(user.id, user.email, "user", OrElse(EmailLocalPart(user.email), Some("User")))

\* GET data/me: users.select('*').eq('id', id).maybeSingle()
MeSelect(r) ==
    /\ req[r].pc = "me_select"
    /\ \E o \in Outcomes :
          LET q == Called(req[r], Call("select", "users", o.res, ""))
              user == req[r].user[1]
              data == users[user.id]
          IN  req' = [req EXCEPT ![r] =
                 CASE o.res = "throw" -> Caught(q, o.msg)
                   [] o.res = "err" -> Finish(q, ErrorResponse(500, o.msg))
                   [] OTHER -> Finish(q, Response(200, "profile", "", <<>>,
                                  IF data = None THEN Some(DefaultProfile(user)) ELSE data))]
    /\ UNCHANGED <<store, served>>

\* POST admin/update: auth.getUser(token); if (ue || !ud.user) 401
AdminGetUser(r) ==
    /\ req[r].pc = "admin_getUser"
    /\ \E g \in GetUserResults(TokenOf(req[r].auth)[1]) :
          LET q == Called(req[r], Call("getUser", "auth", g.res,
                                       IF g.user = None THEN "null" ELSE "user"))
          IN  req' = [req EXCEPT ![r] =
                 CASE g.res = "throw" -> Caught(q, g.msg)
                   [] g.res = "err" \/ g.user = None ->
                        Finish(q, ErrorResponse(401, "Invalid token"))
                   [] OTHER -> [q EXCEPT !.pc = "admin_role", !.user = g.user]]
    /\ UNCHANGED <<store, served>>

\* Mutant of EffectiveRole: an identity without a row is taken for an admin.
EffectiveRole_AdminDefault(row) ==
    IF row = None \/ row[1].role = "" THEN "admin" ELSE row[1].role

\* const role = row?.role || 'user'
EffectiveRole(row) == IF row = None \/ row[1].role = "" THEN "user" ELSE row[1].role

\* Mutant of Privileged: every role is let through.
Privileged_Any(role) == role \in Roles

\* role === 'admin' || role === 'dev'
Privileged(role) == role = "admin" \/ role = "dev"

\* The admin/update handler after the gate: the dispatch on body.type, up to
\* the first write call.
Update(q) ==
    LET type == BodyOf(q).type
    IN  IF ~Truthy(type) THEN Finish(q, ErrorResponse(400, "Missing type"))
        ELSE CASE type[1] = "site"      -> [q EXCEPT !.pc = "site_upsert"]
               [] type[1] = "tutorials" -> [q EXCEPT !.pc = "tutorials_delete"]
               [] type[1] = "cosmetics" -> [q EXCEPT !.pc = "cosmetics_delete"]
               [] OTHER -> Finish(q, ErrorResponse(400, "Unknown update type"))

\* Mutant of Gate: body.type is checked before the role.
Gate_TypeFirst(q, role) ==
    IF Update(q).pc = "done" THEN Update(q)
    ELSE IF ~Privileged(role) THEN Finish(q, ErrorResponse(403, "Insufficient privileges"))
    ELSE Update(q)

\* if (!(role === 'admin' || role === 'dev')) return 403; then the update.
Gate(q, role) ==
    IF ~Privileged(role) THEN Finish(q, ErrorResponse(403, "Insufficient privileges"))
    ELSE Update(q)

\* POST admin/update: users.select('role').eq('id', uid).maybeSingle(), the
\* gate, and the dispatch on body.type.
AdminRoleSelect(r) ==
    /\ req[r].pc = "admin_role"
    /\ \E o \in Outcomes :
          LET role == EffectiveRole(users[req[r].user[1].id])
              q == Called(req[r], Call("select", "users", o.res,
                                       IF o.res = "ok" THEN role ELSE ""))
          IN  req' = [req EXCEPT ![r] =
                 CASE o.res = "throw" -> Caught(q, o.msg)
                   [] o.res = "err" -> Finish(q, ErrorResponse(500, o.msg))
                   [] OTHER -> Gate(q, role)]
    /\ UNCHANGED <<store, served>>

\* const settingsRow = Array.isArray(payload) ? payload[0] : payload;
\* the row upserted is { id: 1, ...settingsRow }
SiteRow(payload) ==
    LET settingsRow == IF payload.rows = <<>> THEN None ELSE Some(payload.rows[1])
    IN  IF settingsRow = None THEN DataRow(Some(1), None)
        ELSE DataRow(IF settingsRow[1].id = None THEN Some(1) ELSE settingsRow[1].id,
                     settingsRow[1].title)

\* POST admin/update, type site: settings.upsert({ id: 1, ...settingsRow })
SiteUpsert(r) ==
    /\ req[r].pc = "site_upsert"
    /\ \E o \in Outcomes :
          LET q == Called(req[r], Call("upsert", "settings", o.res, ""))
          IN  /\ req' = [req EXCEPT ![r] =
                    CASE o.res = "throw" -> Caught(q, o.msg)
                      [] o.res = "err" -> Finish(q, ErrorResponse(500, o.msg))
                      [] OTHER -> Finish(q, Response(200, "null", "", <<>>, None))]
              /\ settings' = IF o.res = "ok"
                             THEN SettingsUpsert(settings, SiteRow(BodyOf(req[r]).payload))
                             ELSE settings
    /\ UNCHANGED <<users, tutorials, cosmetics, served>>

\* const arr = Array.isArray(payload) ? payload : []
ArrOf(payload) == IF payload.kind = "array" THEN payload.rows ELSE <<>>

\* await from(table).delete(): a throw reaches the catch; the value returned,
\* its error included, is dropped.  Then the insert is issued if arr.length.
Deleted(q, o, insertPc) ==
    IF o.res = "throw" THEN Caught(q, o.msg)
    ELSE IF ArrOf(BodyOf(q).payload) # <<>> THEN [q EXCEPT !.pc = insertPc]
    ELSE Finish(q, OkResponse)

\* const { data, error } = await from(table).insert(arr)
Inserted(q, o) ==
    CASE o.res = "throw" -> Caught(q, o.msg)
      [] o.res = "err" -> Finish(q, ErrorResponse(500, o.msg))
      [] OTHER -> Finish(q, OkResponse)

\* Mutant of TutorialsDelete: a delete that succeeds removes nothing.
TutorialsDelete_Keep(r) ==
    /\ req[r].pc = "tutorials_delete"
    /\ \E o \in Outcomes :
          req' = [req EXCEPT ![r] =
                Deleted(Called(req[r], Call("delete", "tutorials", o.res, "")), o,
                        "tutorials_insert")]
    /\ UNCHANGED <<store, served>>

\* POST admin/update, type tutorials: tutorials.delete()
TutorialsDelete(r) ==
    /\ req[r].pc = "tutorials_delete"
    /\ \E o \in Outcomes :
          /\ req' = [req EXCEPT ![r] =
                Deleted(Called(req[r], Call("delete", "tutorials", o.res, "")), o,
                        "tutorials_insert")]
          /\ tutorials' = IF o.res = "ok" THEN <<>> ELSE tutorials
    /\ UNCHANGED <<users, settings, cosmetics, served>>

\* POST admin/update, type tutorials: tutorials.insert(arr)
TutorialsInsert(r) ==
    /\ req[r].pc = "tutorials_insert"
    /\ \E o \in Outcomes :
          LET arr == ArrOf(BodyOf(req[r]).payload)
          IN  /\ o.res = "ok" => Len(tutorials) + Len(arr) <= MaxRows
              /\ req' = [req EXCEPT ![r] =
                    Inserted(Called(req[r], Call("insert", "tutorials", o.res, "")), o)]
              /\ tutorials' = IF o.res = "ok" THEN tutorials \o arr ELSE tutorials
    /\ UNCHANGED <<users, settings, cosmetics, served>>

\* POST admin/update, type cosmetics: cosmetics.delete()
CosmeticsDelete(r) ==
    /\ req[r].pc = "cosmetics_delete"
    /\ \E o \in Outcomes :
          /\ req' = [req EXCEPT ![r] =
                Deleted(Called(req[r], Call("delete", "cosmetics", o.res, "")), o,
                        "cosmetics_insert")]
          /\ cosmetics' = IF o.res = "ok" THEN <<>> ELSE cosmetics
    /\ UNCHANGED <<users, settings, tutorials, served>>

\* POST admin/update, type cosmetics: cosmetics.insert(arr)
CosmeticsInsert(r) ==
    /\ req[r].pc = "cosmetics_insert"
    /\ \E o \in Outcomes :
          LET arr == ArrOf(BodyOf(req[r]).payload)
          IN  /\ o.res = "ok" => Len(cosmetics) + Len(arr) <= MaxRows
              /\ req' = [req EXCEPT ![r] =
                    Inserted(Called(req[r], Call("insert", "cosmetics", o.res, "")), o)]
              /\ cosmetics' = IF o.res = "ok" THEN cosmetics \o arr ELSE cosmetics
    /\ UNCHANGED <<users, settings, tutorials, served>>

-----------------------------------------------------------------------------
(* One invocation at a time: a request is received once the previous one   *)
(* has been answered.                                                      *)

Next ==
    \E r \in Reqs :
        \/ Dispatch(r)
        \/ Complete(r)
        \/ SiteSelect(r)
        \/ TutorialsSelect(r)
        \/ CosmeticsSelect(r)
        \/ SyncGetUser(r)
        \/ SyncUpsert(r)
        \/ MeGetUser(r)
        \/ MeSelect(r)
        \/ AdminGetUser(r)
        \/ AdminRoleSelect(r)
        \/ SiteUpsert(r)
        \/ TutorialsDelete(r)
        \/ TutorialsInsert(r)
        \/ CosmeticsDelete(r)
        \/ CosmeticsInsert(r)

Spec == Init /\ [][Next]_vars

-----------------------------------------------------------------------------
(* The completion proxy: the handler of POST /api/ai (lines 4-45).         *)

\* A JSON value of body.message: its typeof, and the string when it is one.
Message(kind, str) == [kind |-> kind, str |-> str]

\* req.body of a request to /api/ai: undefined, or an object with a message.
AiBodies ==
    { None,
      Some([message |-> Message("undefined", "")]),
      Some([message |-> Message("object", "")]),
      Some([message |-> Message("number", "")]),
      Some([message |-> Message("string", "")]),
      Some([message |-> Message("string", "hello")]) }

\* process.env.OPENAI_API_KEY as an invocation reads it.
ApiKeys == {None, Some(""), Some("sk-1")}

AiRequests == [method : Methods, body : AiBodies, key : ApiKeys]

\* const { message } = req.body || {}
MessageOf(q) == IF q.body = None THEN Message("undefined", "") ELSE q.body[1].message

\* !(!message || typeof message !== 'string'): a number may be truthy, an
\* object is, but only a non-empty string passes.
ValidMessage(m) == m.kind = "string" /\ m.str # ""

\* The bodies the provider answers with: choices[0].message.content and
\* choices[0].text, each present or not.
ProviderJsons ==
    { [content |-> Some("hi"), text |-> None],
      [content |-> None,       text |-> Some("alt")],
      [content |-> Some(""),   text |-> Some("alt")],
      [content |-> None,       text |-> None] }

\* The raw error bodies of the provider.
ProviderTexts == {"quota", "overloaded"}

\* res.status(s).json(...) of the completion proxy.
AiResponse(status, kind, error, details, reply, raw) ==
    [status |-> status, kind |-> kind, error |-> error, details |-> details,
     reply |-> reply, raw |-> raw]

\* res.status(s).json({ error: msg })
AiError(status, msg) == AiResponse(status, "error", msg, None, "", None)

\* Mutant of AiEntered: the credential is tested before the message.
AiEntered_KeyFirst(q) ==
    IF q.method # "POST" THEN Finish(q, AiError(405, "Method not allowed"))
    ELSE IF ~Truthy(q.key)
    THEN Finish(q, AiError(500, "OpenAI key not set in environment variables"))
    ELSE IF ~ValidMessage(MessageOf(q)) THEN Finish(q, AiError(400, "Invalid message"))
    ELSE [q EXCEPT !.pc = "ai_fetch"]

\* The handler from its entry to the fetch, or to its response.
AiEntered(q) ==
    IF q.method # "POST" THEN Finish(q, AiError(405, "Method not allowed"))
    ELSE IF ~ValidMessage(MessageOf(q)) THEN Finish(q, AiError(400, "Invalid message"))
    ELSE IF ~Truthy(q.key)
    THEN Finish(q, AiError(500, "OpenAI key not set in environment variables"))
    ELSE [q EXCEPT !.pc = "ai_fetch"]

\* A request to /api/ai arrives and the handler runs to its first await.
AiDispatch(r) ==
    /\ req[r].pc = "idle"
    /\ served < MaxRequests
    /\ \E i \in AiRequests :
          req' = [req EXCEPT ![r] =
                    AiEntered([pc |-> "idle", method |-> i.method, url |-> "/api/ai",
                               auth |-> None, body |-> i.body, user |-> None,
                               log |-> <<>>, resp |-> None, before |-> Some(store),
                               key |-> i.key])]
    /\ served' = served + 1
    /\ UNCHANGED store

\* const r = await fetch(...): r.ok, not r.ok, or a throw.
AiFetch(r) ==
    /\ req[r].pc = "ai_fetch"
    /\ \/ \E ok \in BOOLEAN :
             req' = [req EXCEPT ![r] =
                       [Called(req[r], Call("fetch", "openai", "ok", IF ok THEN "ok" ELSE "not ok"))
                          EXCEPT !.pc = IF ok THEN "ai_json" ELSE "ai_text"]]
       \/ \E m \in Msgs :
             req' = [req EXCEPT ![r] =
                       Caught(Called(req[r], Call("fetch", "openai", "throw", "")), m)]
    /\ UNCHANGED <<store, served>>

\* if (!r.ok) { const text = await r.text(); return 500 'OpenAI error' }
AiText(r) ==
    /\ req[r].pc = "ai_text"
    /\ \/ \E t \in ProviderTexts :
             req' = [req EXCEPT ![r] =
                       Finish(Called(req[r], Call("text", "openai", "ok", "")),
                              AiResponse(500, "error", "OpenAI error", Some(t), "", None))]
       \/ \E m \in Msgs :
             req' = [req EXCEPT ![r] =
                       Caught(Called(req[r], Call("text", "openai", "throw", "")), m)]
    /\ UNCHANGED <<store, served>>

\* json.choices?.[0]?.message?.content || json?.choices?.[0]?.text || ''
ReplyOf(json) == OrElse(OrElse(json.content, json.text), Some(""))[1]

\* const json = await r.json(); return 200 { reply, raw: json }
AiJson(r) ==
    /\ req[r].pc = "ai_json"
    /\ \/ \E j \in ProviderJsons :
             req' = [req EXCEPT ![r] =
                       Finish(Called(req[r], Call("json", "openai", "ok", "")),
                              AiResponse(200, "reply", "", None, ReplyOf(j), Some(j)))]
       \/ \E m \in Msgs :
             req' = [req EXCEPT ![r] =
                       Caught(Called(req[r], Call("json", "openai", "throw", "")), m)]
    /\ UNCHANGED <<store, served>>

\* The completion proxy alone, one invocation at a time.
NextAi ==
    \E r \in Reqs :
        \/ AiDispatch(r)
        \/ Complete(r)
        \/ AiFetch(r)
        \/ AiText(r)
        \/ AiJson(r)

SpecAi == Init /\ [][NextAi]_vars

-----------------------------------------------------------------------------
(* Invocations in flight together: the platform runs one invocation of the *)
(* handler per request, and their awaits interleave at the data service.   *)

ConcReqs == {1, 2}

\* A reader of tutorials and two editors replacing them.
ConcRequests ==
    { [method |-> "GET", url |-> "/api/supabase/data/tutorials", auth |-> None,
       body |-> None] }
    \cup
    { [method |-> "POST", url |-> "/api/supabase/admin/update",
       auth |-> Some("Bearer tB"), body |-> Some(Body(Some("tutorials"), Payload("array", rows), None))] :
         rows \in {<<RowA>>, <<RowA, RowB>>} }

InitConc ==
    /\ users = [i \in Ids |-> IF i = 2 THEN Some(StoredRow(2, "dev")) ELSE None]
    /\ settings = {}
    /\ tutorials \in {<<>>, <<RowB>>}
    /\ cosmetics = <<RowB>>
    /\ req = [r \in ConcReqs |-> Idle]
    /\ served = 0

\* The invocations that have not answered yet.
InFlight == {k \in DOMAIN req : req[k].pc \notin {"idle", "done"}}

\* A request arrives while others may be in flight; it runs to its first
\* await.  Invocations are anonymous: the lowest free slot is taken.  The
\* record notes which invocations were in flight at the arrival.
ConcDispatch(r) ==
    /\ req[r].pc = "idle"
    /\ \A k \in ConcReqs : k < r => req[k].pc # "idle"
    /\ served < MaxRequests
    /\ \E i \in ConcRequests :
          req' = [req EXCEPT ![r] =
                    Entered([pc |-> "idle", method |-> i.method, url |-> i.url,
                             auth |-> i.auth, body |-> i.body, user |-> None,
                             log |-> <<>>, resp |-> None, before |-> Some(store),
                             inflight |-> InFlight])]
    /\ served' = served + 1
    /\ UNCHANGED store

NextConc ==
    \E r \in ConcReqs :
        \/ ConcDispatch(r)
        \/ Complete(r)
        \/ TutorialsSelect(r)
        \/ AdminGetUser(r)
        \/ AdminRoleSelect(r)
        \/ TutorialsDelete(r)
        \/ TutorialsInsert(r)

SpecConc == InitConc /\ [][NextConc]_vars

-----------------------------------------------------------------------------
(* Both handlers of the deployment, and the settling of their awaits.      *)

NextAll == Next \/ NextAi

SpecAll == Init /\ [][NextAll]_vars

\* The promise invocation r awaits settles and the handler runs on: the
\* continuation of whichever await it is at.
Settles(r) ==
    \/ SiteSelect(r)
    \/ TutorialsSelect(r)
    \/ CosmeticsSelect(r)
    \/ SyncGetUser(r)
    \/ SyncUpsert(r)
    \/ MeGetUser(r)
    \/ MeSelect(r)
    \/ AdminGetUser(r)
    \/ AdminRoleSelect(r)
    \/ SiteUpsert(r)
    \/ TutorialsDelete(r)
    \/ TutorialsInsert(r)
    \/ CosmeticsDelete(r)
    \/ CosmeticsInsert(r)
    \/ AiFetch(r)
    \/ AiText(r)
    \/ AiJson(r)

\* Every external call settles (resolves or rejects) and the event loop then
\* runs the continuation: an enabled continuation is eventually run.
SpecFair == SpecAll /\ \A r \in Reqs : WF_vars(Settles(r))

-----------------------------------------------------------------------------
(* Vocabulary of the properties. *)

Answered(q) == q.pc = "done"

Status(q) == q.resp[1].status

\* The tables are as the request found them.
StoreUntouched(q) == q.before = Some(store)

WriteOps == {"upsert", "delete", "insert"}

\* The positions of the write calls in the invocation's record of calls.
WriteCalls(q) == {i \in DOMAIN q.log : q.log[i].op \in WriteOps}

\* The route table of the interface: method and path prefix.
RouteTable ==
    { [method |-> "GET",  prefix |-> "supabase/data/site"],
      [method |-> "GET",  prefix |-> "supabase/data/tutorials"],
      [method |-> "GET",  prefix |-> "supabase/data/cosmetics"],
      [method |-> "POST", prefix |-> "supabase/data/sync_user"],
      [method |-> "GET",  prefix |-> "supabase/data/me"],
      [method |-> "POST", prefix |-> "supabase/admin/update"] }

\* The request is for the route entry with this method and prefix.
IsFor(q, method, prefix) ==
    /\ q.pc # "idle"
    /\ q.method = method
    /\ StartsWith(StripApi(q.url), prefix)

IsAdminUpdate(q) == IsFor(q, "POST", "supabase/admin/update")

IsSyncUser(q) == IsFor(q, "POST", "supabase/data/sync_user")

IsMe(q) == IsFor(q, "GET", "supabase/data/me")

\* Before call i the invocation resolved its token to a user.
ResolvedBefore(q, i) ==
    \E j \in 1..(i - 1) : q.log[j] = Call("getUser", "auth", "ok", "user")

\* Before call i the invocation resolved its token to a user and then
\* read a role admin or dev for it.
GatePassedBefore(q, i) ==
    \E j \in 1..(i - 1), k \in 1..(i - 1) :
        /\ j < k
        /\ q.log[j] = Call("getUser", "auth", "ok", "user")
        /\ q.log[k] \in {Call("select", "users", "ok", "admin"),
                         Call("select", "users", "ok", "dev")}

\* Authorization headers that carry no bearer token.
TokenlessHeaders == {None, Some(""), Some("Bearer ")}

\* The role the users table holds for the invocation's resolved user.
StoredRole(q) ==
    IF users[q.user[1].id] = None THEN "user" ELSE users[q.user[1].id][1].role

-----------------------------------------------------------------------------
(* Properties. *)

\* C1: in a POST admin/update request every write call (upsert, delete,
\* insert) comes after the token was resolved to a user and the role lookup
\* returned admin or dev in that same request; a request answered 401 or
\* 403 has made no write call and left the tables as it found them.
C1_WritesOnlyAfterGate ==
    \A r \in Reqs :
        LET q == req[r]
        IN  IsAdminUpdate(q) =>
              /\ \A i \in WriteCalls(q) : GatePassedBefore(q, i)
              /\ ~StoreUntouched(q) => WriteCalls(q) # {}
              /\ (Answered(q) /\ Status(q) \in {401, 403}) =>
                    WriteCalls(q) = {} /\ StoreUntouched(q)

\* C1 witness: an admin/update answered 200 after a successful insert.
C1_Witness ==
    \E r \in Reqs :
        /\ IsAdminUpdate(req[r]) /\ Answered(req[r]) /\ Status(req[r]) = 200
        /\ \E i \in WriteCalls(req[r]) :
              req[r].log[i] = Call("insert", "tutorials", "ok", "")
        /\ ~StoreUntouched(req[r])

\* C2 as stated: POST admin/update with a valid token is answered 403 with
\* all tables unchanged when the stored role is user or there is no profile
\* row, and is not answered 403 when the stored role is admin or dev.
C2_Original ==
    \A r \in Reqs :
        LET q == req[r]
        IN  (IsAdminUpdate(q) /\ Answered(q) /\ q.user # None) =>
              IF StoredRole(q) \in {"admin", "dev"}
              THEN Status(q) # 403
              ELSE Status(q) = 403 /\ StoreUntouched(q)

\* C2 amended: the same, for requests whose role lookup returned without
\* an error; when the role lookup returns an error or throws, the answer is
\* 500 and all tables are unchanged.
C2_RoleGate ==
    \A r \in Reqs :
        LET q == req[r]
        IN  (IsAdminUpdate(q) /\ Answered(q) /\ q.user # None) =>
              /\ Len(q.log) >= 2
              /\ q.log[2].op = "select" /\ q.log[2].tbl = "users"
              /\ IF q.log[2].res # "ok"
                 THEN Status(q) = 500 /\ StoreUntouched(q) /\ WriteCalls(q) = {}
                 ELSE IF StoredRole(q) \in {"admin", "dev"}
                 THEN Status(q) # 403
                 ELSE Status(q) = 403 /\ StoreUntouched(q) /\ WriteCalls(q) = {}

\* C2 witness: a valid token whose identity has no profile row, sending a
\* tutorials update, is answered 403.
C2_Witness ==
    \E r \in Reqs :
        /\ IsAdminUpdate(req[r]) /\ Answered(req[r]) /\ req[r].user # None
        /\ users[req[r].user[1].id] = None
        /\ BodyOf(req[r]).type = Some("tutorials")
        /\ Status(req[r]) = 403

\* C3: a POST sync_user or POST admin/update request without a bearer token
\* (header absent, empty, or only 'Bearer ') is rejected having made no
\* external call, and the tables are as before the request.
C3_NoTokenNoEffect ==
    \A r \in Reqs :
        LET q == req[r]
        IN  ((IsSyncUser(q) \/ IsAdminUpdate(q)) /\ q.auth \in TokenlessHeaders) =>
              /\ Answered(q)
              /\ Status(q) \in {400, 401}
              /\ q.log = <<>>
              /\ StoreUntouched(q)

\* C3 witness: a tutorials update sent with the header 'Bearer ' is answered
\* 401 and the tutorials are still there.
C3_Witness ==
    \E r \in Reqs :
        /\ IsAdminUpdate(req[r]) /\ req[r].auth = Some("Bearer ")
        /\ BodyOf(req[r]).type = Some("tutorials")
        /\ Answered(req[r]) /\ Status(req[r]) = 401
        /\ tutorials # <<>>

Target(type) == IF type = Some("tutorials") THEN tutorials ELSE cosmetics

\* C5 as stated: a tutorials or cosmetics update answered 200 {ok:true}
\* leaves the collection holding exactly the records of the payload and none
\* of the previous rows, for every outcome of the delete and insert calls.
C5_ReplaceExact ==
    \A r \in Reqs :
        LET q == req[r]
            body == BodyOf(q)
        IN  (/\ IsAdminUpdate(q) /\ Answered(q) /\ q.resp = Some(OkResponse)
             /\ body.type \in {Some("tutorials"), Some("cosmetics")}) =>
              Target(body.type) = ArrOf(body.payload)

\* The responses of a replace whose delete succeeded and whose insert failed.
PartialWriteResponses == {ErrorResponse(500, m) : m \in Msgs}

\* C6 as stated: a replace whose delete failed is answered neither with a
\* success nor with a response that a replace whose delete succeeded and
\* whose insert failed is answered with.
C6_FailuresDistinguishable ==
    \A r \in Reqs :
        LET q == req[r]
        IN  (/\ IsAdminUpdate(q) /\ Answered(q)
             /\ \E i \in DOMAIN q.log : q.log[i].op = "delete" /\ q.log[i].res # "ok") =>
              /\ Status(q) # 200
              /\ q.resp[1] \notin PartialWriteResponses

\* C7 as stated: after a successful sync_user the users table holds the row
\* of the identity, and a role admin or dev (and the name) that the row had
\* before the call are the same after it.
C7_SyncKeepsRole ==
    \A r \in Reqs :
        LET q == req[r]
            id == q.user[1].id
            old == q.before[1][1][id]
        IN  (IsSyncUser(q) /\ Answered(q) /\ Status(q) = 200) =>
              /\ users[id] # None
              /\ (old # None /\ old[1].role \in {"admin", "dev"}) =>
                    /\ users[id][1].role = old[1].role
                    /\ users[id][1].name = old[1].name

\* No entry of the route table has the request's method and a prefix of its
\* normalized path.
Unmatched(q) ==
    /\ q.pc # "idle"
    /\ ~\E e \in RouteTable : IsFor(q, e.method, e.prefix)

\* C8: a request that matches no route entry is answered 404 whatever its
\* Authorization header holds, having made no external call, with the
\* tables as it found them.
C8_UnmatchedNotFound ==
    \A r \in Reqs :
        LET q == req[r]
        IN  Unmatched(q) =>
              /\ Answered(q)
              /\ q.resp = Some(ErrorResponse(404, "Not found"))
              /\ q.log = <<>>
              /\ StoreUntouched(q)

\* C8 witness: a GET of admin/update with the token of an admin is
\* answered 404.
C8_Witness ==
    \E r \in Reqs :
        /\ Unmatched(req[r]) /\ Answered(req[r]) /\ Status(req[r]) = 404
        /\ req[r].method = "GET"
        /\ req[r].url = "/api/supabase/admin/update"
        /\ req[r].auth = Some("Bearer tA")
        /\ users[1] # None /\ users[1][1].role = "admin"

\* body.type is missing or none of site, tutorials, cosmetics.
BadType(q) ==
    \/ BodyOf(q).type = None
    \/ BodyOf(q).type[1] \notin {"site", "tutorials", "cosmetics"}

\* The role of the caller: the stored role of the identity its bearer token
\* belongs to, user when it has no row, none without a token or identity.
CallerRole(q) ==
    LET token == TokenOf(q.auth)
    IN  IF token = None \/ token[1] \notin DOMAIN Identities THEN "none"
        ELSE LET id == Identities[token[1]].id
             IN  IF users[id] = None THEN "user" ELSE users[id][1].role

\* The invocation passed the gate: it resolved its token and read a role
\* admin or dev.
GatePassed(q) == GatePassedBefore(q, Len(q.log) + 1)

\* C9 as stated: an admin/update whose body has a missing or unknown type
\* is answered 400, no table modified, when the caller is admin or dev,
\* and 401 or 403 when the caller is not.
C9_Original ==
    \A r \in Reqs :
        LET q == req[r]
        IN  (IsAdminUpdate(q) /\ Answered(q) /\ BadType(q)) =>
              IF CallerRole(q) \in {"admin", "dev"}
              THEN Status(q) = 400 /\ StoreUntouched(q)
              ELSE Status(q) \in {401, 403}

\* C9 amended: the same when the identity and role lookups of the gate
\* succeed; when a lookup fails the answer is 401 (the identity lookup
\* returns an error) or 500 (the identity lookup throws, the role lookup
\* fails), whoever the caller is.  400 is answered only after the gate has
\* passed, and no table is modified in any of these cases.
C9_BadTypeAfterGate ==
    \A r \in Reqs :
        LET q == req[r]
        IN  (IsAdminUpdate(q) /\ Answered(q) /\ BadType(q)) =>
              /\ StoreUntouched(q) /\ WriteCalls(q) = {}
              /\ Status(q) = 400 <=> GatePassed(q)
              /\ IF \A i \in DOMAIN q.log : q.log[i].res = "ok"
                 THEN IF CallerRole(q) \in {"admin", "dev"}
                      THEN Status(q) = 400
                      ELSE Status(q) \in {401, 403}
                 ELSE Status(q) \in {401, 500}

\* C9 witness: a dev sends an update of unknown type and is answered 400.
C9_Witness ==
    \E r \in Reqs :
        /\ IsAdminUpdate(req[r]) /\ Answered(req[r])
        /\ BodyOf(req[r]).type = Some("bogus")
        /\ CallerRole(req[r]) = "dev"
        /\ Status(req[r]) = 400

\* C10 as stated: GET me is answered 401 when the token is missing, when
\* the token is rejected, and when the resolver returns no user without an
\* error; when the resolver yields an identity the answer is the stored
\* profile row, or the derived default with role user if there is no row.
C10_MeUnauthenticated ==
    \A r \in Reqs :
        LET q == req[r]
        IN  (IsMe(q) /\ Answered(q)) =>
              /\ (\/ q.log = <<>>
                  \/ q.log[1].res = "err"
                  \/ q.log[1] = Call("getUser", "auth", "ok", "null")) =>
                    Status(q) = 401
              /\ q.user # None =>
                    /\ Status(q) = 200
                    /\ q.resp[1].profile =
                          IF users[q.user[1].id] # None THEN users[q.user[1].id]
                          ELSE Some(DefaultProfile(q.user[1]))
                    /\ users[q.user[1].id] = None => q.resp[1].profile[1].role = "user"


-----------------------------------------------------------------------------
(* The completion proxy. *)

\* An invocation of the completion proxy that has run.
IsAi(q) == q.pc # "idle" /\ q.url = "/api/ai"

\* The message of a POST /ai request is absent, empty or not a string.
BadMessage(q) ==
    \/ q.body = None
    \/ q.body[1].message.kind # "string"
    \/ q.body[1].message.str = ""

\* The calls an invocation has made to the completion provider.
ProviderCalls(q) == {i \in 1..Len(q.log) : q.log[i].tbl = "openai"}

\* C11: a POST /ai request whose message is absent, empty or not a string
\* is answered 400 'Invalid message', whatever the credential is; one with a
\* valid message and no provider credential is answered 500 with the
\* configuration error; in both cases the provider is never called.
C11_AiValidation ==
    \A r \in Reqs :
        LET q == req[r] IN
        (IsAi(q) /\ q.method = "POST") =>
            /\ BadMessage(q) =>
                  /\ Answered(q) /\ Status(q) = 400
                  /\ q.resp[1].error = "Invalid message"
                  /\ ProviderCalls(q) = {}
            /\ (~BadMessage(q) /\ ~Truthy(q.key)) =>
                  /\ Answered(q) /\ Status(q) = 500
                  /\ q.resp[1].error = "OpenAI key not set in environment variables"
                  /\ q.resp[1].details = None
                  /\ ProviderCalls(q) = {}

\* Both checks would fail, and the answer is the message's 400.
C11_Witness ==
    \E r \in Reqs :
        LET q == req[r] IN
        /\ IsAi(q) /\ q.method = "POST"
        /\ q.body # None /\ q.body[1].message = Message("string", "")
        /\ q.key = None
        /\ Answered(q) /\ Status(q) = 400

-----------------------------------------------------------------------------
(* Replace: delete, then insert. *)

\* The positions in the log of the calls op the invocation made.
CallsOf(q, op) == {i \in 1..Len(q.log) : q.log[i].op = op}

\* The delete of a replace failed: it returned an error, or threw.
DeleteFailed(q) == \E i \in CallsOf(q, "delete") : q.log[i].res # "ok"

\* C12: within one replace the delete completes before the insert begins,
\* and when the delete fails (returns an error or throws) no insert is
\* issued and the answer is a failure, never 200 {ok:true}.
C12_DeleteFailurePropagates ==
    \A r \in Reqs :
        LET q == req[r] IN
        /\ \A i \in CallsOf(q, "insert") : \E j \in CallsOf(q, "delete") : j < i
        /\ DeleteFailed(q) =>
              /\ CallsOf(q, "insert") = {}
              /\ Answered(q) => Status(q) # 200

-----------------------------------------------------------------------------
(* Readers and editors in flight together. *)

\* A GET data/tutorials request answered with rows.
TutorialsRead(q) ==
    /\ IsFor(q, "GET", "supabase/data/tutorials")
    /\ Answered(q) /\ Status(q) = 200

\* A POST admin/update request of type tutorials that has arrived.
TutorialsReplace(q) ==
    /\ IsAdminUpdate(q)
    /\ q.body # None /\ q.body[1].type = Some("tutorials")

\* The rows tutorials held when the request arrived.
OldRows(q) == q.before[1][3]

\* The rows the request replaces tutorials with.
NewRows(q) == ArrOf(BodyOf(q).payload)

\* Every external call of the invocation succeeded.
AllOk(q) == \A i \in DOMAIN q.log : q.log[i].res = "ok"

\* The two invocations were in flight together: one arrived before the
\* other had answered.
Overlap(rq, r, w) == w \in rq[r].inflight \/ r \in rq[w].inflight

\* A read of tutorials arrived after the delete of a replace in flight and
\* was answered the empty array, of a collection that held rows.
C13_EmptyRead ==
    \E r \in ConcReqs, w \in ConcReqs :
        /\ r # w /\ TutorialsRead(req[r]) /\ TutorialsReplace(req[w])
        /\ w \in req[r].inflight
        /\ req[w].pc = "tutorials_insert"
        /\ OldRows(req[w]) # <<>> /\ NewRows(req[w]) # <<>>
        /\ req[r].resp[1].rows = <<>>

\* C13: with one replace of tutorials in flight, a GET data/tutorials
\* in flight together with it and answered 200 returns the full old set,
\* the empty set or the full new set, and nothing else.
C13_ReadOldEmptyOrNew ==
    \A r \in ConcReqs, w \in ConcReqs :
        (r # w /\ TutorialsRead(req[r]) /\ TutorialsReplace(req[w])
              /\ Overlap(req, r, w)) =>
            req[r].resp[1].rows \in
                {Ordered(OldRows(req[w])), <<>>, Ordered(NewRows(req[w]))}

\* C14: two replaces of tutorials in flight together that both answered
\* 200 with every call successful leave the rows of one of them (one ran
\* after the other) or the rows of both (their deletes both ran before
\* their inserts); while both have deleted and neither has inserted the
\* collection is empty.
C14_ReplacesInterleave ==
    \A r \in ConcReqs, w \in ConcReqs :
        (r # w /\ TutorialsReplace(req[r]) /\ TutorialsReplace(req[w])
              /\ AllOk(req[r]) /\ AllOk(req[w])) =>
            /\ (req[r].pc = "tutorials_insert" /\ req[w].pc = "tutorials_insert")
                  => tutorials = <<>>
            /\ (Answered(req[r]) /\ Answered(req[w])) =>
                  /\ Status(req[r]) = 200 /\ Status(req[w]) = 200
                  /\ tutorials \in {NewRows(req[r]), NewRows(req[w]),
                                    NewRows(req[r]) \o NewRows(req[w]),
                                    NewRows(req[w]) \o NewRows(req[r])}

\* Both answered 200 and the collection holds the rows of both.
C14_Witness ==
    \E r \in ConcReqs, w \in ConcReqs :
        /\ r # w /\ TutorialsReplace(req[r]) /\ TutorialsReplace(req[w])
        /\ AllOk(req[r]) /\ AllOk(req[w])
        /\ Answered(req[r]) /\ Status(req[r]) = 200
        /\ Answered(req[w]) /\ Status(req[w]) = 200
        /\ NewRows(req[r]) # NewRows(req[w])
        /\ tutorials = NewRows(req[r]) \o NewRows(req[w])

-----------------------------------------------------------------------------
(* Site settings. *)

\* A POST admin/update request of type site that has arrived.
SiteUpdate(q) ==
    /\ IsAdminUpdate(q)
    /\ q.body # None /\ q.body[1].type = Some("site")

\* C15: settings holds at most one row and its id is 1, whatever site
\* updates were made and whatever their payloads were; a site update
\* leaves users, tutorials and cosmetics as it found them.
C15_SettingsSingleton ==
    /\ Cardinality(settings) <= 1
    /\ \A x \in settings : x.id = Some(1)
    /\ \A r \in Reqs :
          SiteUpdate(req[r]) =>
              /\ req[r].before[1][1] = users
              /\ req[r].before[1][3] = tutorials
              /\ req[r].before[1][4] = cosmetics

-----------------------------------------------------------------------------
(* Termination and the shape of the answers. *)

\* The status codes the handlers answer with.
Statuses == {200, 400, 401, 403, 404, 405, 500}

\* The answer of an invocation is well formed: a known status; a status
\* other than 200 comes with a non-empty error field, and only then.
WellAnswered(q) ==
    /\ q.resp # None
    /\ Status(q) \in Statuses
    /\ Status(q) # 200 => (Status(q) >= 400 /\ q.resp[1].kind = "error" /\ q.resp[1].error # "")
    /\ q.resp[1].kind = "error" => Status(q) >= 400

\* The last external call of the invocation threw.
LastThrew(q) == q.log # <<>> /\ q.log[Len(q.log)].res = "throw"

\* C16: every invocation of either handler, whatever the outcomes of its
\* external calls, ends answered exactly once: an invocation in flight can
\* always run on and eventually is answered; it holds a response exactly
\* when it has answered and the response is never replaced; a failure
\* answer has a 4xx/5xx status and an error field; a call that throws is
\* answered 500 with its message, never left unanswered.
C16_AnsweredOnce ==
    /\ [](\A r \in Reqs :
             LET q == req[r] IN
             /\ q.pc \notin {"idle", "done"} => (q.resp = None /\ ENABLED Settles(r))
             /\ Answered(q) => WellAnswered(q)
             /\ LastThrew(q) => (Answered(q) /\ Status(q) = 500
                                    /\ q.resp[1].error \in Msgs \cup {"TypeError"}))
    /\ [][\A r \in Reqs : Answered(req[r]) => req'[r] \in {req[r], Idle}]_vars
    /\ \A r \in Reqs : (req[r].pc # "idle") ~> Answered(req[r])

\* The completion proxy answered 500 after the read of the provider's body
\* threw, its second external call.
C16_Witness ==
    \E r \in Reqs :
        /\ IsAi(req[r]) /\ Answered(req[r])
        /\ Len(req[r].log) = 2 /\ LastThrew(req[r])
        /\ Status(req[r]) = 500 /\ req[r].resp[1].error \in Msgs

-----------------------------------------------------------------------------
(* The row sync_user creates. *)

\* C17: a successful sync_user for an identity without a row creates the
\* row with role user, with the identity's email or else the email of the
\* body, and with the identity's display name or else the local part of the
\* email stored in the row, also when that email is the one of the body.
C17_SyncDefaults ==
    \A r \in Reqs :
        LET q == req[r]
            id == q.user[1].id
            row == users[id][1]
        IN  (IsSyncUser(q) /\ Answered(q) /\ Status(q) = 200
                 /\ q.before[1][1][id] = None) =>
              /\ users[id] # None
              /\ row.role = "user"
              /\ row.email = IF Truthy(q.user[1].email) THEN q.user[1].email
                             ELSE IF Truthy(BodyOf(q).email) THEN BodyOf(q).email
                             ELSE Some("")
              /\ Truthy(q.user[1].full_name) => row.name = q.user[1].full_name
              /\ (~Truthy(q.user[1].full_name) /\ Truthy(row.email)) =>
                    row.name = Some(LocalPart(row.email[1]))

-----------------------------------------------------------------------------
(* A replace without an array. *)

\* C18: an authorized admin/update of type tutorials or cosmetics whose
\* payload is missing or is not an array is never answered 400 and issues
\* no insert; answered 200 it is answered {ok:true} and the rows of the
\* target collection have been deleted.
C18_NonArrayPayloadIsEmpty ==
    \A r \in Reqs :
        LET q == req[r]
            body == BodyOf(q)
        IN  (/\ IsAdminUpdate(q) /\ Answered(q) /\ GatePassed(q)
             /\ body.type \in {Some("tutorials"), Some("cosmetics")}
             /\ body.payload.kind # "array") =>
              /\ Status(q) # 400
              /\ CallsOf(q, "insert") = {}
              /\ Status(q) = 200 => (q.resp = Some(OkResponse) /\ Target(body.type) = <<>>)

-----------------------------------------------------------------------------
(* The read routes. *)

\* The list routes and the table each reads.
ListRoutes ==
    { [prefix |-> "supabase/data/site",      tbl |-> "settings"],
      [prefix |-> "supabase/data/tutorials", tbl |-> "tutorials"],
      [prefix |-> "supabase/data/cosmetics", tbl |-> "cosmetics"] }

\* The answers a list route gives for the outcome of its select, read off
\* the tables alone.
ReadAnswers(tbl, res) ==
    IF res # "ok" THEN {ErrorResponse(500, m) : m \in Msgs}
    ELSE CASE tbl = "tutorials" -> {Response(200, "rows", "", Ordered(tutorials), None)}
           [] tbl = "cosmetics" -> {Response(200, "rows", "", Ordered(cosmetics), None)}
           [] OTHER ->
                IF settings = {}
                THEN {Response(200, "row", "", <<DataRow(None, Some("Gorilla Hub"))>>, None)}
                ELSE {Response(200, "row", "", <<row>>, None) : row \in settings}

\* The request as it arrived, with this Authorization header instead.
ArrivedWith(q, h) ==
    [q EXCEPT !.pc = "idle", !.auth = h, !.user = None, !.log = <<>>, !.resp = None]

\* C19: a GET of site, tutorials, cosmetics or me makes no upsert, insert
\* or delete call and leaves the tables as it found them, whatever the
\* outcomes of its calls; a GET of site, tutorials or cosmetics never calls
\* getUser, makes one select on its table, and its answer is the one read
\* off the tables for that outcome, the same under every Authorization
\* header.
C19_ReadsLeaveStore ==
    \A r \in Reqs :
        LET q == req[r] IN
        /\ (IsMe(q) \/ \E e \in ListRoutes : IsFor(q, "GET", e.prefix)) =>
              (WriteCalls(q) = {} /\ StoreUntouched(q))
        /\ \A e \in ListRoutes :
              IsFor(q, "GET", e.prefix) =>
                  /\ CallsOf(q, "getUser") = {}
                  /\ \A i \in DOMAIN q.log : q.log[i].op = "select" /\ q.log[i].tbl = e.tbl
                  /\ Len(q.log) = IF Answered(q) THEN 1 ELSE 0
                  /\ Answered(q) => q.resp[1] \in ReadAnswers(e.tbl, q.log[1].res)
                  /\ \A h \in AuthHeaders :
                        [Entered(ArrivedWith(q, h)) EXCEPT !.auth = q.auth]
                            = Entered(ArrivedWith(q, q.auth))

\* A GET of tutorials carrying a token that resolves to nobody is answered
\* the rows of the collection.
C19_Witness ==
    \E r \in Reqs :
        LET q == req[r] IN
        /\ IsFor(q, "GET", "supabase/data/tutorials")
        /\ q.auth = Some("Bearer zz")
        /\ Answered(q) /\ Status(q) = 200 /\ q.resp[1].rows # <<>>

=============================================================================
